---- MODULE Spec2Model ----
(***************************************************************************)
(* Model of the savant_rs_serializer GStreamer element                     *)
(* (adapters/gst/gst_plugins/python/savant_rs_serializer.py).              *)
(*                                                                         *)
(* The element's fields are the variables; each GStreamer virtual method   *)
(* (do_start, do_set_caps, do_set_property, do_prepare_output_buffer,      *)
(* do_sink_event) is one action.  Python's None is the empty tuple <<>>    *)
(* and a present value x is <<x>>.  A Python exception leaving a handler   *)
(* is recorded in ret; assignments made before the raise are kept.         *)
(***************************************************************************)
EXTENDS Integers, Sequences, FiniteSets, TLC

\* ---------------------------------------------------------------- bounds
MaxEvents == 4      \* buffers plus upstream EOS events delivered in a run
MaxStreams == 2     \* largest number-of-streams explored

\* ------------------------------------------------------- optional values
None == <<>>
Some(x) == <<x>>
IsNone(o) == o = <<>>
Get(o) == o[1]

\* ------------------------------------------------------------- constants
EMBEDDED_FRAME_TYPE == "embedded"
DEFAULT_SOURCE_ID_PATTERN == <<"source-", "%d">>
DEFAULT_FRAMERATE == "30/1"
CLOCK_TIME_NONE == -1

VARIABLES
    \* properties
    source_id, eos_on_file_end, eos_on_loop_end, eos_on_frame_params_change,
    enable_multistream, source_id_pattern, number_of_streams, shutdown_auth,
    read_metadata, frame_type,
    \* element state
    frame_params, initial_size_transformation, last_frame_params,
    location, last_location, new_loop, source_ids_and_topics,
    stream_in_progress, json_metadata, frame_num,
    \* environment: the host pipeline and what it observed
    started,     \* do_start returned True: the element is running
    out,         \* envelopes that left through the source pad, in order
    fanout,      \* the frame messages serialized for the last buffer
    ret,         \* what the last handler returned (or that it raised)
    mapped,      \* the last input buffer is still mapped for reading
    nev,         \* buffers and upstream EOS events delivered so far
    since_load   \* frames built since the sidecar was last (re)loaded

props == <<source_id, eos_on_file_end, eos_on_loop_end,
           eos_on_frame_params_change, enable_multistream, source_id_pattern,
           number_of_streams, shutdown_auth, read_metadata, frame_type>>
caps_state == <<frame_params, initial_size_transformation>>
segment == <<last_frame_params, last_location, new_loop, stream_in_progress>>
sidecar == <<json_metadata, frame_num>>
vars == <<props, caps_state, segment, sidecar, location,
          source_ids_and_topics, started, out, fanout, ret, mapped, nev,
          since_load>>

\* ------------------------------------------------- Python library pieces
\* True when the token of a pattern is a conversion specifier.
IsConversion(tok) == tok \in {"%d", "%.0s", "%y"}

\* str % int for a non-tuple argument: the format is scanned left to
\* right; a conversion with no argument left raises TypeError, an unknown
\* conversion character raises ValueError, and an argument left over at
\* the end raises TypeError.  "%d" writes the decimal digits, "%.0s" writes
\* str(i) cut to zero characters.
RECURSIVE FormatFrom(_, _, _, _, _)
FormatFrom(pattern, k, i, used, acc) ==
    IF k > Len(pattern)
    THEN IF used THEN [err |-> "none", val |-> acc]
                 ELSE [err |-> "TypeError", val |-> ""]
    ELSE LET tok == pattern[k] IN
         IF ~IsConversion(tok)
         THEN FormatFrom(pattern, k + 1, i, used, acc \o tok)
         ELSE IF used THEN [err |-> "TypeError", val |-> ""]
         ELSE IF tok = "%d"
              THEN FormatFrom(pattern, k + 1, i, TRUE, acc \o ToString(i))
         ELSE IF tok = "%.0s"
              THEN FormatFrom(pattern, k + 1, i, TRUE, acc)
         ELSE [err |-> "ValueError", val |-> ""]

PyFormat(pattern, i) == FormatFrom(pattern, 1, i, FALSE, "")

\* str.encode() of an ASCII string: the same characters, as bytes.
Encode(s) == [bytes |-> s]

\* A location is a Python object: a pathlib.Path (from a tag event) or a
\* plain str (from the location property).  Its text is kept in parts.
PathOf(dir, stem, suffix) ==
    [cls |-> "Path", dir |-> dir, stem |-> stem, suffix |-> suffix]
StrOf(dir, stem, suffix) ==
    [cls |-> "str", dir |-> dir, stem |-> stem, suffix |-> suffix]
\* str(location)
LocationStr(loc) == loc.dir \o "/" \o loc.stem \o loc.suffix
\* A variant that appends ".json" to the whole file name.
JsonPathKeepingSuffix(loc) == PathOf(loc.dir, loc.stem \o loc.suffix, ".json")
\* location.parent / f'{location.stem}.json'
JsonPath(loc) == PathOf(loc.dir, loc.stem, ".json")
\* Only a Path has .parent and .stem; None and str raise AttributeError.
HasPathAttrs(loc) == ~IsNone(loc) /\ Get(loc).cls = "Path"

\* ------------------------------------------------------------ file system
\* The sidecar files present on disk, as the JSON records splitfile yields.
\* A record without a schema field has schema = None.
Record(schema, objects) ==
    [schema |-> schema, metadata |-> [objects |-> objects]]
FileA ==
    << Record(Some("VideoFrame"), <<"a0">>),
       Record(Some("Telemetry"), <<"t0">>),
       Record(None, <<"a1">>) >>
IsFile(path) == path = PathOf("/data", "A", ".json")
FileRecords(path) == FileA

\* A variant that takes every record for a frame record.
is_any_metadata(metadata) == TRUE

is_videoframe_metadata(metadata) ==
    ~(~IsNone(metadata.schema) /\ Get(metadata.schema) # "VideoFrame")

\* filter(is_videoframe_metadata, records), keeping file order
RECURSIVE FilterRecords(_)
FilterRecords(recs) ==
    IF recs = <<>> THEN <<>>
    ELSE IF is_videoframe_metadata(Head(recs))
         THEN <<Head(recs)>> \o FilterRecords(Tail(recs))
         ELSE FilterRecords(Tail(recs))

MapMetadata(recs) == [k \in 1..Len(recs) |-> recs[k].metadata]

read_json_metadata_file(rm, path) ==
    IF rm /\ IsFile(path)
    THEN Some(MapMetadata(FilterRecords(FileRecords(path))))
    ELSE None

\* ------------------------------------------------------------- do_start
\* [source_id_pattern % i for i in range(number_of_streams)]: the ids, or
\* the first exception raised while building the list.
RECURSIVE FormatIds(_, _, _)
FormatIds(pattern, i, n) ==
    IF i >= n THEN [err |-> "none", ids |-> <<>>]
    ELSE LET r == PyFormat(pattern, i) IN
         IF r.err # "none" THEN [err |-> r.err, ids |-> <<>>]
         ELSE LET rest == FormatIds(pattern, i + 1, n) IN
              IF rest.err # "none" THEN rest
              ELSE [err |-> "none", ids |-> <<r.val>> \o rest.ids]

\* A variant that never finds a duplicate.
HasNoDuplicates(ids) == FALSE

\* len(source_ids) != len(set(source_ids))
HasDuplicates(ids) == Len(ids) # Cardinality({ids[k] : k \in 1..Len(ids)})

\* What do_start computes: result is "True", "False" or "raised"; ids are
\* the source ids when it gets as far as assigning source_ids_and_topics.
StartOutcome(multi, pattern, n, sid) ==
    IF multi
    THEN IF IsNone(pattern) THEN [result |-> "False", ids |-> <<>>]
         ELSE LET r == FormatIds(Get(pattern), 0, n) IN
              IF r.err = "TypeError" THEN [result |-> "False", ids |-> <<>>]
              ELSE IF r.err # "none" THEN [result |-> "raised", ids |-> <<>>]
              ELSE IF HasDuplicates(r.ids)
                   THEN [result |-> "False", ids |-> <<>>]
                   ELSE [result |-> "True", ids |-> r.ids]
    ELSE IF IsNone(sid) THEN [result |-> "False", ids |-> <<>>]
         ELSE [result |-> "True", ids |-> <<Get(sid)>>]

\* A variant whose topics lack the trailing "/".
SourceIdsAndBareTopics(ids) ==
    [k \in 1..Len(ids) |-> <<ids[k], Encode(ids[k])>>]

\* [(source_id, f'{source_id}/'.encode()) for source_id in source_ids]
SourceIdsAndTopics(ids) ==
    [k \in 1..Len(ids) |-> <<ids[k], Encode(ids[k] \o "/")>>]

\* The host calls do_start once; the element runs only if it returned True
\* (an exception leaving the method counts as a failed start).
DoStart ==
    /\ ~started
    /\ ret.op = "init"
    /\ LET o == StartOutcome(enable_multistream, source_id_pattern,
                             number_of_streams, source_id) IN
       /\ source_ids_and_topics' =
              IF o.result = "True" THEN SourceIdsAndTopics(o.ids)
              ELSE source_ids_and_topics
       /\ started' = (o.result = "True")
       /\ ret' = [op |-> "start", result |-> o.result]
    /\ UNCHANGED <<props, caps_state, segment, sidecar, location,
                   out, fanout, mapped, nev, since_load>>

\* ----------------------------------------------------------- do_set_caps
\* CODEC_BY_CAPS_NAME[struct.get_name()]; a missing key is a KeyError.
CodecNameOf(caps_name) ==
    CASE caps_name = "video/x-h264" -> Some("h264")
      [] caps_name = "image/jpeg" -> Some("jpeg")
      [] OTHER -> None

FrameParams(codec_name, width, height, framerate) ==
    [codec_name |-> codec_name, width |-> width, height |-> height,
     framerate |-> framerate]

\* A variant that takes its arguments in the other order.
InitialSizeSwapped(width, height) ==
    [kind |-> "initial_size", width |-> height, height |-> width]

\* VideoFrameTransformation.initial_size(width, height)
InitialSize(width, height) ==
    [kind |-> "initial_size", width |-> width, height |-> height]

\* f'{framerate_num}/{framerate_demon}' or the default framerate
CapsFramerate(caps) ==
    IF ~IsNone(caps.framerate)
    THEN ToString(Get(caps.framerate)[1]) \o "/" \o
         ToString(Get(caps.framerate)[2])
    ELSE DEFAULT_FRAMERATE

DoSetCaps(in_caps) ==
    /\ started
    /\ IF IsNone(CodecNameOf(in_caps.name))
       THEN /\ ret' = [op |-> "set_caps", result |-> "False"]
            /\ UNCHANGED caps_state
       ELSE /\ frame_params' =
                Some(FrameParams(Get(CodecNameOf(in_caps.name)),
                                 in_caps.width, in_caps.height,
                                 CapsFramerate(in_caps)))
            /\ initial_size_transformation' =
                Some(InitialSize(in_caps.width, in_caps.height))
            /\ ret' = [op |-> "set_caps", result |-> "True"]
    /\ UNCHANGED <<props, segment, sidecar, location, source_ids_and_topics,
                   started, out, fanout, mapped, nev, since_load>>

\* ------------------------------------------------ do_set_property(location)
\* The property value is a str (or None); it is stored as given.
DoSetPropertyLocation(value) ==
    /\ started
    /\ location' = value
    /\ UNCHANGED <<props, caps_state, segment, sidecar,
                   source_ids_and_topics, started, out, fanout, ret, mapped,
                   nev, since_load>>

\* ------------------------------------------------------- message emission
\* gst_buffer_from_list([topic, data]) with data = the serialized message.
\* memory is the appended input-buffer memory, when there is one; via says
\* whether the element pushed the buffer itself or returned it to the host.
Envelope(topic, payload, memory, timing, via) ==
    [topic |-> topic, payload |-> payload, memory |-> memory,
     timing |-> timing, via |-> via]

NoTiming == None

\* The serialized payloads, as far as the output log keeps them: the kind
\* of message, whom it is for, and the input buffer a frame was built from.
EndOfStream(sid) ==
    [kind |-> "end_of_stream", source_id |-> Some(sid), auth |-> None,
     buf |-> None]
Shutdown(auth) ==
    [kind |-> "shutdown", source_id |-> None, auth |-> Some(auth),
     buf |-> None]
FrameDigest(sid, buf) ==
    [kind |-> "video_frame", source_id |-> Some(sid), auth |-> None,
     buf |-> Some(buf)]

\* send_eos_message: one envelope per logical source, in list order
EosEnvelopes(sources) ==
    [k \in 1..Len(sources) |->
        Envelope(sources[k][2], EndOfStream(sources[k][1]), None,
                 NoTiming, "push")]

\* A variant that does not clear stream_in_progress.
send_eos_message_keeping_progress(o, sources) ==
    [out |-> o \o EosEnvelopes(sources),
     stream_in_progress |-> stream_in_progress]

\* send_eos_message applied to the output log o: the log and the
\* stream_in_progress flag it leaves.
send_eos_message(o, sources) ==
    [out |-> o \o EosEnvelopes(sources), stream_in_progress |-> FALSE]

\* A variant that addresses the shutdown message to the last source.
ShutdownEnvelopesToLastSource(auth, sources) ==
    IF ~IsNone(auth)
    THEN << Envelope(sources[Len(sources)][2], Shutdown(Get(auth)), None,
                     NoTiming, "push") >>
    ELSE <<>>

\* A variant that addresses the shutdown message before testing the key.
ShutdownEnvelopesUnconditional(auth, sources) ==
    << Envelope(sources[1][2],
                Shutdown(IF IsNone(auth) THEN "" ELSE Get(auth)), None,
                NoTiming, "push") >>

\* send_shutdown_message: only when shutdown_auth is set
ShutdownEnvelopes(auth, sources) ==
    IF ~IsNone(auth)
    THEN << Envelope(sources[1][2], Shutdown(Get(auth)), None,
                     NoTiming, "push") >>
    ELSE <<>>

\* ---------------------------------------------------------- do_sink_event
SinkEventEos ==
    /\ started
    /\ nev < MaxEvents
    /\ LET e == send_eos_message(out, source_ids_and_topics) IN
       /\ out' = e.out \o ShutdownEnvelopes(shutdown_auth,
                                            source_ids_and_topics)
       /\ stream_in_progress' = e.stream_in_progress
    /\ nev' = nev + 1
    /\ UNCHANGED <<props, caps_state, last_frame_params, last_location,
                   new_loop, sidecar, location, source_ids_and_topics,
                   started, fanout, ret, mapped, since_load>>

\* A TAG event; tag_location is None when the tag list has no location.
SinkEventTag(tag_location) ==
    /\ started
    /\ IF ~IsNone(tag_location)
       THEN /\ location' = tag_location
            /\ new_loop' = TRUE
            /\ json_metadata' =
                 read_json_metadata_file(read_metadata,
                                         JsonPath(Get(tag_location)))
            /\ frame_num' = 0
            /\ since_load' = 0
       ELSE UNCHANGED <<location, new_loop, json_metadata, frame_num,
                        since_load>>
    /\ UNCHANGED <<props, caps_state, last_frame_params, last_location,
                   stream_in_progress, source_ids_and_topics,
                   started, out, fanout, ret, mapped, nev>>

\* ------------------------------------------------------ build_video_frame
DEFAULT_TIME_BASE == <<1, 1000000000>>
DEFAULT_NAMESPACE == "default"

\* The location attribute set on a frame when a location is known.
LocationAttributes(loc) ==
    IF ~IsNone(loc)
    THEN << [namespace |-> DEFAULT_NAMESPACE, name |-> "location",
             values |-> <<LocationStr(Get(loc))>>] >>
    ELSE <<>>

\* self.read_metadata and self.json_metadata (None and [] are falsy)
UsesSidecar(rm, jm) == rm /\ ~IsNone(jm) /\ Get(jm) # <<>>

\* self.json_metadata[self.frame_num] raises IndexError past the end
SidecarIndexError(rm, jm, fn) == UsesSidecar(rm, jm) /\ fn >= Len(Get(jm))

\* frame_metadata['objects'] of the record at frame_num, or None
FrameObjects(rm, jm, fn) ==
    IF UsesSidecar(rm, jm) THEN Some(Get(jm)[fn + 1].objects) ELSE None

\* A variant that advances once per logical source.
NextFrameNumPerSource(rm, jm, fn) ==
    IF UsesSidecar(rm, jm) THEN fn + Len(source_ids_and_topics) ELSE fn

\* A variant that starts over at the first record after the last one.
NextFrameNumWrapping(rm, jm, fn) ==
    IF UsesSidecar(rm, jm) THEN (fn + 1) % Len(Get(jm)) ELSE fn

\* self.frame_num after the lookup
NextFrameNum(rm, jm, fn) == IF UsesSidecar(rm, jm) THEN fn + 1 ELSE fn

\* The VideoFrame built when the sidecar lookup does not raise.  objects
\* holds what add_objects_to_video_frame added (nothing for None or []).
VideoFrame(sid, pts, dts, duration, content, keyframe, fp, ist, loc, objects) ==
    [source_id |-> sid,
     framerate |-> fp.framerate, width |-> fp.width, height |-> fp.height,
     codec |-> fp.codec_name,
     content |-> content, keyframe |-> keyframe,
     pts |-> IF pts = CLOCK_TIME_NONE THEN 0 ELSE pts,
     dts |-> dts, duration |-> duration, time_base |-> DEFAULT_TIME_BASE,
     transformations |-> <<ist>>,
     objects |-> IF ~IsNone(objects) THEN Get(objects) ELSE <<>>,
     attributes |-> LocationAttributes(loc)]

\* ---------------------------------------------- do_prepare_output_buffer
\* A variant that tests eos_on_file_end without comparing the locations.
BoundaryCrossedWithoutComparing ==
    \/ eos_on_file_end
    \/ eos_on_frame_params_change /\ frame_params # last_frame_params
    \/ eos_on_loop_end /\ new_loop

\* A variant without the loop-end trigger.
BoundaryCrossedIgnoringLoop ==
    \/ eos_on_file_end /\ location # last_location
    \/ eos_on_frame_params_change /\ frame_params # last_frame_params

\* The end-of-stream condition tested while a stream is in progress.
BoundaryCrossed ==
    \/ eos_on_file_end /\ location # last_location
    \/ eos_on_frame_params_change /\ frame_params # last_frame_params
    \/ eos_on_loop_end /\ new_loop

\* A variant that tests the condition whether or not a stream is in
\* progress.
AtBoundaryWhateverProgress == BoundaryCrossed

\* The boundary block is entered only while a stream is in progress.
AtBoundary == stream_in_progress /\ BoundaryCrossed

\* VideoFrameContent.internal(data) / .external(frame_type.value, None)
InternalContent(in_buf) ==
    [kind |-> "internal", method |-> None, data |-> Some(in_buf.memory)]
ExternalContent(ft) ==
    [kind |-> "external", method |-> Some(ft), data |-> None]

ZEROMQ == "zeromq"
FrameTypeSupported(ft) == IsNone(ft) \/ Get(ft) = ZEROMQ

\* dts / duration handed to build_video_frame
OptTime(t) == IF t # CLOCK_TIME_NONE THEN Some(t) ELSE None

\* A variant that pushes every envelope, the last one included.
FrameEnvelopeAlwaysPushed(sources, i, in_buf, ft) ==
    Envelope(sources[i][2], FrameDigest(sources[i][1], in_buf.id),
             IF ~IsNone(ft) THEN Some(in_buf.memory) ELSE None,
             Some([pts |-> in_buf.pts, dts |-> in_buf.dts,
                   duration |-> in_buf.duration]),
             "push")

\* The envelope of the i-th logical source for one input buffer: topic and
\* serialized frame, the input memory when the content is external, the
\* input buffer's timestamps; pushed unless it is the last one.
FrameEnvelope(sources, i, in_buf, ft) ==
    Envelope(sources[i][2], FrameDigest(sources[i][1], in_buf.id),
             IF ~IsNone(ft) THEN Some(in_buf.memory) ELSE None,
             Some([pts |-> in_buf.pts, dts |-> in_buf.dts,
                   duration |-> in_buf.duration]),
             IF i < Len(sources) THEN "push" ELSE "return")

FrameEnvelopes(sources, in_buf, ft) ==
    [i \in 1..Len(sources) |-> FrameEnvelope(sources, i, in_buf, ft)]

\* The frame serialized for each logical source: one frame object whose
\* source_id is overwritten before each serialization.
FanOut(sources, frame) ==
    [i \in 1..Len(sources) |-> [frame EXCEPT !.source_id = sources[i][1]]]

DoPrepareOutputBuffer(in_buf) ==
    /\ started
    /\ ~IsNone(frame_params)
    /\ nev < MaxEvents
    /\ nev' = nev + 1
    /\ UNCHANGED <<props, caps_state, location, source_ids_and_topics, started>>
    /\ LET boundary == AtBoundary IN
       IF boundary /\ ~HasPathAttrs(location)
       THEN \* self.location.parent raises AttributeError
            /\ ret' = [op |-> "prepare_output_buffer",
                       result |-> "raised AttributeError"]
            /\ fanout' = <<>>
            /\ mapped' = FALSE
            /\ UNCHANGED <<segment, sidecar, out, since_load>>
       ELSE LET jm == IF boundary
                      THEN read_json_metadata_file(read_metadata,
                                                   JsonPath(Get(location)))
                      ELSE json_metadata
                fn == IF boundary THEN 0 ELSE frame_num
                e == IF boundary
                     THEN send_eos_message(out, source_ids_and_topics)
                     ELSE [out |-> out,
                           stream_in_progress |-> stream_in_progress]
                out1 == e.out
                sip == e.stream_in_progress
                sl == IF boundary THEN 0 ELSE since_load
            IN
            /\ last_location' = location
            /\ last_frame_params' = frame_params
            /\ new_loop' = FALSE
            /\ json_metadata' = jm
            /\ IF ~FrameTypeSupported(frame_type)
               THEN /\ ret' = [op |-> "prepare_output_buffer",
                               result |-> "ERROR"]
                    /\ frame_num' = fn
                    /\ out' = out1
                    /\ stream_in_progress' = sip
                    /\ fanout' = <<>>
                    /\ mapped' = FALSE
                    /\ since_load' = sl
               ELSE IF SidecarIndexError(read_metadata, jm, fn)
               THEN /\ ret' = [op |-> "prepare_output_buffer",
                               result |-> "raised IndexError"]
                    /\ frame_num' = fn
                    /\ out' = out1
                    /\ stream_in_progress' = sip
                    /\ fanout' = <<>>
                    /\ mapped' = IsNone(frame_type)
                    /\ since_load' = sl
               ELSE LET content == IF IsNone(frame_type)
                                   THEN InternalContent(in_buf)
                                   ELSE ExternalContent(Get(frame_type))
                        frame == VideoFrame(
                            source_ids_and_topics[1][1], in_buf.pts,
                            OptTime(in_buf.dts), OptTime(in_buf.duration),
                            content, ~in_buf.delta_unit,
                            Get(frame_params),
                            Get(initial_size_transformation), location,
                            FrameObjects(read_metadata, jm, fn))
                    IN
                    /\ frame_num' = NextFrameNum(read_metadata, jm, fn)
                    /\ fanout' = FanOut(source_ids_and_topics, frame)
                    /\ out' = out1 \o FrameEnvelopes(source_ids_and_topics,
                                                     in_buf, frame_type)
                    /\ mapped' = FALSE
                    /\ stream_in_progress' = TRUE
                    /\ since_load' = sl + 1
                    /\ ret' = [op |-> "prepare_output_buffer",
                               result |-> "OK"]

\* ------------------------------------------------------------------ inputs
\* Property values given to the element before it is started.
SourceIdInputs == {None, Some("cam")}
PatternInputs ==
    { None,
      Some(DEFAULT_SOURCE_ID_PATTERN),   \* "source-%d"
      Some(<<"cam">>),                   \* no conversion
      Some(<<"s", "%d", "%d">>),         \* two conversions, one argument
      Some(<<"dup", "%.0s">>),           \* every id is "dup"
      Some(<<"bad-", "%y">>) }           \* unknown conversion character
FrameTypeInputs == {None, Some(ZEROMQ), Some("other")}
ShutdownAuthInputs == {None, Some("key")}

\* Locations carried by tag events (None: a tag list without a location)
\* and values written to the location property while running.
TagInputs ==
    { None, Some(PathOf("/data", "A", ".mp4")),
      Some(PathOf("/data", "B", ".mp4")) }
LocationPropertyInputs == { Some(StrOf("/data", "A", ".mp4")) }

Caps(name, width, height, framerate) ==
    [name |-> name, width |-> width, height |-> height,
     framerate |-> framerate]
CapsInputs ==
    { Caps("video/x-h264", 640, 480, Some(<<25, 1>>)),
      Caps("image/jpeg", 1280, 720, None),
      Caps("audio/x-raw", 0, 0, None) }

\* The n-th buffer or EOS event of a run, when it is a buffer: the first
\* one has no timestamps and is a keyframe, later ones are delta units.
InBuf(n) ==
    [id |-> n, memory |-> n,
     pts |-> IF n = 1 THEN CLOCK_TIME_NONE ELSE 40 * n,
     dts |-> IF n = 1 THEN CLOCK_TIME_NONE ELSE 40 * n,
     duration |-> IF n = 1 THEN CLOCK_TIME_NONE ELSE 40,
     delta_unit |-> n > 1]

\* ------------------------------------------------------ the specification
\* Property settings given to the element before the pipeline starts it.
\* Three families are explored rather than their full product.
\* Every boundary-trigger setting, with and without shutdown-auth, for one
\* source and by-reference content:
ConfigLifecycle ==
    /\ source_id = Some("cam")
    /\ enable_multistream = FALSE
    /\ source_id_pattern = Some(DEFAULT_SOURCE_ID_PATTERN)
    /\ number_of_streams = 1
    /\ eos_on_file_end \in BOOLEAN
    /\ eos_on_loop_end \in BOOLEAN
    /\ eos_on_frame_params_change \in BOOLEAN
    /\ shutdown_auth \in ShutdownAuthInputs
    /\ read_metadata = FALSE
    /\ frame_type = Some(ZEROMQ)

\* Sidecar reading with every frame type, for one source and for the
\* largest fan-out:
ConfigSidecar ==
    /\ \/ /\ source_id = Some("cam")
          /\ enable_multistream = FALSE
          /\ number_of_streams = 1
       \/ /\ source_id = None
          /\ enable_multistream = TRUE
          /\ number_of_streams = MaxStreams
    /\ source_id_pattern = Some(DEFAULT_SOURCE_ID_PATTERN)
    /\ eos_on_file_end = TRUE
    /\ eos_on_loop_end \in BOOLEAN
    /\ eos_on_frame_params_change = TRUE
    /\ shutdown_auth = None
    /\ read_metadata = TRUE
    /\ frame_type \in FrameTypeInputs

\* Every way of naming the sources, with the default triggers:
ConfigSources ==
    /\ \/ /\ enable_multistream = TRUE
          /\ source_id = None
          /\ source_id_pattern \in PatternInputs
          /\ number_of_streams \in 1..MaxStreams
       \/ /\ enable_multistream = FALSE
          /\ source_id \in SourceIdInputs
          /\ source_id_pattern = Some(DEFAULT_SOURCE_ID_PATTERN)
          /\ number_of_streams = 1
    /\ eos_on_file_end = TRUE
    /\ eos_on_loop_end = FALSE
    /\ eos_on_frame_params_change = TRUE
    /\ shutdown_auth = Some("key")
    /\ read_metadata = FALSE
    /\ frame_type = None

\* The element as constructed by __init__ and configured through its
\* properties before the pipeline starts it.
Init ==
    /\ ConfigLifecycle \/ ConfigSidecar \/ ConfigSources
    /\ frame_params = None
    /\ initial_size_transformation = None
    /\ last_frame_params = None
    /\ location = None
    /\ last_location = None
    /\ new_loop = FALSE
    /\ source_ids_and_topics = <<>>
    /\ stream_in_progress = FALSE
    /\ json_metadata = None
    /\ frame_num = 0
    /\ started = FALSE
    /\ out = <<>>
    /\ fanout = <<>>
    /\ ret = [op |-> "init", result |-> "None"]
    /\ mapped = FALSE
    /\ nev = 0
    /\ since_load = 0

\* Any handler, called by the host in any order once the element runs.
Next ==
    \/ DoStart
    \/ \E in_caps \in CapsInputs : DoSetCaps(in_caps)
    \/ \E value \in LocationPropertyInputs : DoSetPropertyLocation(value)
    \/ \E tag_location \in TagInputs : SinkEventTag(tag_location)
    \/ SinkEventEos
    \/ DoPrepareOutputBuffer(InBuf(nev + 1))

Spec == Init /\ [][Next]_vars

\* ------------------------------------------------ the end-to-end scenario
\* The host delivers exactly: start, one negotiation, location A, buffers
\* B1 and B2, location B, buffer B3, upstream EOS.  A location reaches the
\* element either in a tag event (a Path) or through the location property
\* (a str).
LocA == <<"/data", "A", ".mp4">>
LocB == <<"/data", "B", ".mp4">>
AsPath(l) == Some(PathOf(l[1], l[2], l[3]))
AsStr(l) == Some(StrOf(l[1], l[2], l[3]))
IsLoc(loc, l) == loc \in {AsPath(l), AsStr(l)}

ScenarioNegotiate ==
    /\ IsNone(frame_params)
    /\ \E in_caps \in CapsInputs : DoSetCaps(in_caps)

ScenarioTag ==
    \/ started /\ ~IsNone(frame_params) /\ nev = 0 /\ IsNone(location)
         /\ SinkEventTag(AsPath(LocA))
    \/ nev = 2 /\ IsLoc(location, LocA) /\ SinkEventTag(AsPath(LocB))

ScenarioSetLocation ==
    \/ started /\ ~IsNone(frame_params) /\ nev = 0 /\ IsNone(location)
         /\ DoSetPropertyLocation(AsStr(LocA))
    \/ nev = 2 /\ IsLoc(location, LocA) /\ DoSetPropertyLocation(AsStr(LocB))

ScenarioBuffer ==
    /\ \/ nev < 2 /\ IsLoc(location, LocA)
       \/ nev = 2 /\ IsLoc(location, LocB)
    /\ DoPrepareOutputBuffer(InBuf(nev + 1))

ScenarioEos == nev = 3 /\ SinkEventEos

NextEndToEnd ==
    \/ DoStart
    \/ ScenarioNegotiate
    \/ ScenarioTag
    \/ ScenarioSetLocation
    \/ ScenarioBuffer
    \/ ScenarioEos

SpecEndToEnd == Init /\ [][NextEndToEnd]_vars

\* ================================================================ claims
\* What the claims read off the output log.
Payloads(envs) == [k \in 1..Len(envs) |-> envs[k].payload]
IsEos(env) == env.payload.kind = "end_of_stream"
IsFrame(env) == env.payload.kind = "video_frame"
IsShutdown(env) == env.payload.kind = "shutdown"
\* The envelopes a step appends to the output log.
Added == SubSeq(out', Len(out) + 1, Len(out'))
\* A step that is the processing of one input buffer.
BufferStep == DoPrepareOutputBuffer(InBuf(nev + 1))
SourceId(k) == source_ids_and_topics[k][1]
Topic(k) == source_ids_and_topics[k][2]
NumSources == Len(source_ids_and_topics)

\* ---------------------------------------------------------------- C1
\* The payloads the end-to-end scenario is to emit, for source id sid.
EndToEndPayloads(sid, auth) ==
    << FrameDigest(sid, 1), FrameDigest(sid, 2), EndOfStream(sid),
       FrameDigest(sid, 3), EndOfStream(sid) >>
    \o (IF IsNone(auth) THEN <<>> ELSE <<Shutdown(Get(auth))>>)

EndToEndConfig ==
    /\ ~enable_multistream
    /\ eos_on_file_end
    /\ ~read_metadata
    /\ FrameTypeSupported(frame_type)

\* C1: in single-stream mode with eos_on_file_end and without sidecar
\* reading, once B1 (location A), B2 (location A), B3 (location B) and the
\* upstream EOS have been delivered, the output is exactly frame(B1),
\* frame(B2), end-of-stream, frame(B3), end-of-stream, then one shutdown
\* message iff shutdown-auth is set.
C1_EndToEnd ==
    (started /\ nev = 4 /\ EndToEndConfig)
        => Payloads(out) = EndToEndPayloads(SourceId(1), shutdown_auth)

\* C1 holds when location B reaches the element in a tag event; it fails
\* only where B is written to the location property (see C2).
C1_EndToEndByTag ==
    (started /\ nev = 4 /\ EndToEndConfig /\ HasPathAttrs(location))
        => Payloads(out) = EndToEndPayloads(SourceId(1), shutdown_auth)

\* ---------------------------------------------------------------- C2
\* C2: when a buffer follows a successfully processed one (no end-of-stream
\* since), eos_on_file_end is set and the location differs from the one
\* the previous buffer saw, processing it first emits exactly one
\* end-of-stream message per logical source, in configured order, and only
\* frame messages of the new buffer after them.
C2_EosOnLocationChange ==
    [][ (BufferStep /\ stream_in_progress /\ eos_on_file_end
           /\ location # last_location)
        => /\ Len(Added) >= NumSources
           /\ \A k \in 1..NumSources :
                 Added[k].payload = EndOfStream(SourceId(k))
           /\ \A k \in (NumSources + 1)..Len(Added) : IsFrame(Added[k]) ]_vars

\* ---------------------------------------------------------------- C3
\* The buffer about to be processed sees the location and frame_params the
\* previous buffer saw, or is the first buffer of the run.
ConstantSincePrevious ==
    \/ IsNone(last_frame_params)
    \/ location = last_location /\ frame_params = last_frame_params
NoEosAdded == \A k \in 1..Len(Added) : ~IsEos(Added[k])

\* C3 as claimed: a buffer processed while location and frame_params are
\* what they were for the previous buffer emits no end-of-stream message,
\* for any setting of the three triggers.
C3_NoSpuriousEos ==
    [][ (BufferStep /\ ConstantSincePrevious) => NoEosAdded ]_vars

\* C3: a buffer processed while location and frame_params are what they
\* were for the previous buffer emits no end-of-stream message, unless
\* eos_on_loop_end is set and a location tag event arrived since the
\* previous buffer; end-of-stream messages come only from processing a
\* buffer or from the upstream EOS event, which emits one per logical
\* source in order.
C3_NoSpuriousEosUnlessLoopRestart ==
    [][ /\ (BufferStep /\ ConstantSincePrevious
              /\ ~(eos_on_loop_end /\ new_loop)) => NoEosAdded
        /\ (~BufferStep /\ out' # out)
              => /\ SinkEventEos
                 /\ Len(Added) >= NumSources
                 /\ \A k \in 1..Len(Added) :
                       IsEos(Added[k]) <=> k <= NumSources
                 /\ \A k \in 1..NumSources :
                       Added[k].payload = EndOfStream(SourceId(k)) ]_vars

\* Two buffers were processed with every trigger set and a known location,
\* and the output holds their frames and nothing else.
C3_Witness ==
    /\ eos_on_file_end /\ eos_on_loop_end /\ eos_on_frame_params_change
    /\ ~IsNone(location) /\ location = last_location
    /\ Len(out) >= 2
    /\ \A k \in 1..Len(out) : IsFrame(out[k])
    /\ out[1].payload.buf # out[Len(out)].payload.buf

\* ---------------------------------------------------------------- C4
\* C4: with sidecar reading on and a loaded sidecar of K >= 1 records, a
\* buffer processed when frame_num = K (and no boundary reloads the file)
\* is processed normally: the result is OK, its frames are emitted without
\* objects and frame_num stays K.
C4_SidecarShorterThanStream ==
    [][ (/\ BufferStep
         /\ read_metadata
         /\ ~IsNone(json_metadata)
         /\ Len(Get(json_metadata)) >= 1
         /\ frame_num = Len(Get(json_metadata))
         /\ FrameTypeSupported(frame_type)
         /\ ~(stream_in_progress /\ BoundaryCrossed))
        => /\ ret'.result = "OK"
           /\ Len(Added) = NumSources
           /\ \A k \in 1..Len(Added) : IsFrame(Added[k])
           /\ \A k \in 1..Len(fanout') : fanout'[k].objects = <<>>
           /\ frame_num' = frame_num ]_vars

\* ---------------------------------------------------------------- C5
\* A record counts as a frame record when it has no schema field or its
\* schema is "VideoFrame".
QualifiesAsFrame(rec) == rec.schema \in {None, Some("VideoFrame")}
\* The object lists of the frame records of a file, in file order.
FrameObjectLists(recs) ==
    LET q == SelectSeq(recs, QualifiesAsFrame) IN
    [k \in 1..Len(q) |-> q[k].metadata.objects]
LoadedObjectLists ==
    [k \in 1..Len(Get(json_metadata)) |-> Get(json_metadata)[k].objects]

\* C5: with sidecar reading on, a loaded sidecar holds the frame records of
\* its file in file order (records of another schema left out), and the
\* i-th frame built since the (re)load, i = 1..K, carries the object list
\* of record i-1 for every logical source.
C5_SidecarIndexing ==
    (read_metadata /\ ~IsNone(json_metadata))
        => /\ LoadedObjectLists = FrameObjectLists(FileA)
           /\ (fanout # <<>> /\ since_load \in 1..Len(Get(json_metadata)))
                 => \A k \in 1..Len(fanout) :
                       fanout[k].objects = LoadedObjectLists[since_load]

\* The second frame since the load was built and carries the third record
\* of the file, the second one being of another schema.
C5_Witness ==
    /\ read_metadata /\ ~IsNone(json_metadata)
    /\ since_load = 2 /\ fanout # <<>>
    /\ fanout[1].objects = FileA[3].metadata.objects
    /\ ~QualifiesAsFrame(FileA[2])

\* ---------------------------------------------------------------- C6
\* C6: once the element runs, the logical-source list is non-empty, its
\* ids are pairwise distinct and each topic is the id followed by "/"; in
\* multistream mode it has number_of_streams entries, the i-th being the
\* pattern applied to i-1 ("source-%d" gives source-0, source-1, ...); in
\* single-stream mode it is the one configured source id.
C6_LogicalSources ==
    started =>
        /\ NumSources >= 1
        /\ \A j, k \in 1..NumSources : j # k => SourceId(j) # SourceId(k)
        /\ \A k \in 1..NumSources : Topic(k) = [bytes |-> SourceId(k) \o "/"]
        /\ enable_multistream =>
              /\ NumSources = number_of_streams
              /\ \A k \in 1..NumSources :
                    /\ SourceId(k) = PyFormat(Get(source_id_pattern), k - 1).val
                    /\ source_id_pattern = Some(DEFAULT_SOURCE_ID_PATTERN)
                          => SourceId(k) = "source-" \o ToString(k - 1)
        /\ ~enable_multistream =>
              /\ NumSources = 1
              /\ SourceId(1) = Get(source_id)

\* A multistream element runs with the default pattern and several streams.
C6_Witness ==
    /\ started /\ enable_multistream /\ number_of_streams >= 2
    /\ SourceId(1) = "source-0" /\ SourceId(2) = "source-1"
    /\ Topic(2) = [bytes |-> "source-1/"]

\* ---------------------------------------------------------------- C7
\* A pattern can be applied to an integer when it holds exactly one
\* conversion and that conversion is known.
Conversions(pattern) == {k \in 1..Len(pattern) : IsConversion(pattern[k])}
AppliesToInteger(pattern) ==
    /\ Cardinality(Conversions(pattern)) = 1
    /\ \A k \in Conversions(pattern) : pattern[k] \in {"%d", "%.0s"}
\* The ids it yields are equal when its conversion writes nothing.
YieldsEqualIds(pattern, n) ==
    n >= 2 /\ \A k \in Conversions(pattern) : pattern[k] = "%.0s"

StartMustFail ==
    \/ enable_multistream /\ IsNone(source_id_pattern)
    \/ /\ enable_multistream /\ ~IsNone(source_id_pattern)
       /\ ~AppliesToInteger(Get(source_id_pattern))
    \/ /\ enable_multistream /\ ~IsNone(source_id_pattern)
       /\ AppliesToInteger(Get(source_id_pattern))
       /\ YieldsEqualIds(Get(source_id_pattern), number_of_streams)
    \/ ~enable_multistream /\ IsNone(source_id)

C8_FanOut ==
    [][ (BufferStep /\ ret'.result = "OK")
        => LET n == NumSources
               first == Len(Added) - n
           IN
           /\ first >= 0
           /\ \A k \in 1..first : IsEos(Added[k])
           /\ \A i \in 1..n :
                 /\ Added[first + i].payload = FrameDigest(SourceId(i), nev + 1)
                 /\ Added[first + i].topic = Topic(i)
                 /\ Added[first + i].via = IF i < n THEN "push" ELSE "return"
           /\ Len(fanout') = n
           /\ \A i \in 1..n :
                 fanout'[i] = [fanout'[1] EXCEPT !.source_id = SourceId(i)] ]_vars

\* A buffer was fanned out to two or more sources: the log ends with its
\* frames, the last one returned and the one before it pushed.
C8_Witness ==
    /\ NumSources >= 2 /\ Len(out) >= 2 /\ Len(fanout) = NumSources
    /\ IsFrame(out[Len(out)]) /\ out[Len(out)].via = "return"
    /\ IsFrame(out[Len(out) - 1]) /\ out[Len(out) - 1].via = "push"
    /\ out[Len(out)].payload.buf = out[Len(out) - 1].payload.buf
    /\ fanout[1].source_id # fanout[2].source_id

\* ---------------------------------------------------------------- C9
\* C9: an upstream EOS event emits one end-of-stream message per logical
\* source in configured order and then, iff shutdown-auth is set, exactly
\* one shutdown message; no other step emits a shutdown message, so none
\* is ever emitted while shutdown-auth is unset.
C9_EosThenShutdown ==
    [][ /\ SinkEventEos
          => /\ Len(Added) =
                  NumSources + (IF IsNone(shutdown_auth) THEN 0 ELSE 1)
             /\ \A k \in 1..NumSources :
                   /\ Added[k].payload = EndOfStream(SourceId(k))
                   /\ Added[k].topic = Topic(k)
             /\ ~IsNone(shutdown_auth)
                   => Added[NumSources + 1].payload
                         = Shutdown(Get(shutdown_auth))
        /\ (\E k \in 1..Len(Added) : IsShutdown(Added[k]))
              => SinkEventEos /\ ~IsNone(shutdown_auth) ]_vars

\* An upstream EOS reached an element with several sources and a key: the
\* log ends with their end-of-stream messages and one shutdown message.
C9_Witness ==
    /\ ~IsNone(shutdown_auth) /\ NumSources >= 2 /\ Len(out) >= 3
    /\ IsShutdown(out[Len(out)])
    /\ IsEos(out[Len(out) - 1]) /\ IsEos(out[Len(out) - 2])
    /\ out[Len(out) - 1].payload.source_id = Some(SourceId(NumSources))

\* ---------------------------------------------------------------- C10
\* The position of the last end-of-stream message in the log, 0 if none.
LastEos ==
    LET eos == {k \in 1..Len(out) : IsEos(out[k])} IN
    IF eos = {} THEN 0 ELSE CHOOSE k \in eos : \A j \in eos : j <= k

\* C10: between operations, stream_in_progress is true iff a frame message
\* was produced after the last end-of-stream message (or since the start
\* when there is none).
C10_StreamInProgress ==
    stream_in_progress <=> \E k \in (LastEos + 1)..Len(out) : IsFrame(out[k])

\* A stream is in progress again after an earlier end-of-stream.
C10_Witness ==
    /\ stream_in_progress /\ LastEos > 0
    /\ IsFrame(out[Len(out)])


\* ---------------------------------------------------------------- C11
\* The steps that (re)load the sidecar records: a tag event carrying a
\* location, and a buffer whose boundary fired (it emits end-of-stream).
TagWithLocation == \E t \in TagInputs \ {None} : SinkEventTag(t)
BoundaryFired == BufferStep /\ \E k \in 1..Len(Added) : IsEos(Added[k])

\* C11: frame_num is reset to 0 exactly when the sidecar is (re)loaded.  A
\* tag event carrying a location leaves frame_num = 0; a buffer whose
\* boundary fired counts from 0 again, so it leaves frame_num = 1 when its
\* frame took record 0 and 0 otherwise; every other step neither decreases
\* frame_num nor returns it to 0.
C11_FrameIndexReset ==
    [][ /\ TagWithLocation => frame_num' = 0
        /\ BoundaryFired
              => frame_num' =
                    IF /\ ret'.result = "OK"
                       /\ UsesSidecar(read_metadata, json_metadata')
                    THEN 1 ELSE 0
        /\ ~(TagWithLocation \/ BoundaryFired)
              => /\ frame_num' >= frame_num
                 /\ frame_num' = 0 => frame_num = 0 ]_vars

\* A boundary fired after two frames had used the sidecar; the buffer that
\* fired it took record 0 of the reloaded file.
C11_Witness ==
    /\ read_metadata /\ UsesSidecar(read_metadata, json_metadata)
    /\ frame_num = 1 /\ since_load = 1
    /\ Len(out) >= 3 * NumSources
    /\ IsFrame(out[Len(out)])
    /\ IsEos(out[Len(out) - NumSources])
    /\ IsFrame(out[1]) /\ IsFrame(out[NumSources + 1])


\* ---------------------------------------------------------------- C12
\* The output of a buffer that closes the stream in progress and opens the
\* next one: one end-of-stream message per logical source in configured
\* order, then the buffer's frame messages, one per logical source.
EosThenFrames ==
    /\ Len(Added) = 2 * NumSources
    /\ \A k \in 1..NumSources :
          /\ Added[k].payload = EndOfStream(SourceId(k))
          /\ Added[NumSources + k].payload = FrameDigest(SourceId(k), nev + 1)

\* C12: with eos_on_frame_params_change set, a buffer that follows a
\* successfully processed one (a stream is in progress) and sees
\* frame_params different from those the previous buffer saw emits one
\* end-of-stream message per logical source and then its frame messages,
\* whether or not a location is known.  Buffers that would be rejected for
\* another reason (unsupported frame type, sidecar lookup) are left out.
C12_EosOnFrameParamsChange ==
    [][ (/\ BufferStep
         /\ stream_in_progress
         /\ eos_on_frame_params_change
         /\ frame_params # last_frame_params
         /\ FrameTypeSupported(frame_type)
         /\ ~read_metadata)
        => /\ ret'.result = "OK"
           /\ EosThenFrames
           /\ stream_in_progress' ]_vars


\* ---------------------------------------------------------------- C13
\* C13: with eos_on_loop_end set, a successfully processed buffer that
\* follows a successfully processed one (a stream is in progress) with a
\* location tag event in between emits one end-of-stream message per
\* logical source and then its frame messages, whatever the tag's location
\* and the other two triggers; new_loop is false after it, and a
\* successfully processed buffer with new_loop false and neither of the
\* other two triggers firing emits no end-of-stream message.
C13_EosOnLoopEnd ==
    [][ /\ (/\ BufferStep /\ ret'.result = "OK"
            /\ stream_in_progress /\ eos_on_loop_end /\ new_loop)
           => EosThenFrames /\ ~new_loop'
        /\ (/\ BufferStep /\ ret'.result = "OK"
            /\ ~new_loop
            /\ ~(eos_on_file_end /\ location # last_location)
            /\ ~(eos_on_frame_params_change
                   /\ frame_params # last_frame_params))
           => NoEosAdded /\ ~new_loop' ]_vars

\* Only the loop-end trigger is set; a tag event arrived between the first
\* and the second buffer, none between the second and the third: the log
\* is frame, end-of-stream, frame, frame.
C13_Witness ==
    /\ eos_on_loop_end /\ ~eos_on_file_end /\ ~eos_on_frame_params_change
    /\ ~new_loop /\ HasPathAttrs(location)
    /\ Len(out) = 4
    /\ IsFrame(out[1]) /\ IsEos(out[2]) /\ IsFrame(out[3]) /\ IsFrame(out[4])
    /\ out[4].payload.buf = Some(3)


\* ---------------------------------------------------------------- C14
\* The boundary condition over the values the previous buffer left.
BoundaryOnPreviousValues ==
    /\ stream_in_progress
    /\ \/ eos_on_file_end /\ location # last_location
       \/ eos_on_frame_params_change /\ frame_params # last_frame_params
       \/ eos_on_loop_end /\ new_loop

\* C14: when the processing of a buffer ends, accepted or rejected, with a
\* boundary or without, last_location is the current location,
\* last_frame_params the current frame_params and new_loop is false; an
\* end-of-stream message emitted by the buffer was decided on the values
\* these fields had before.
C14_PreviousValuesUpdated ==
    [][ BufferStep
        => /\ last_location' = location'
           /\ last_frame_params' = frame_params'
           /\ ~new_loop'
           /\ (\E k \in 1..Len(Added) : IsEos(Added[k]))
                 => BoundaryOnPreviousValues ]_vars


\* ---------------------------------------------------------------- C15
\* The sidecar records a reload for location loc is to yield: the frame
\* records of the file with loc's directory and stem and the suffix
\* ".json", when sidecar reading is on and that file exists (only
\* /data/A.json does), otherwise nothing.
SidecarOf(loc) ==
    IF read_metadata /\ loc.dir = "/data" /\ loc.stem = "A"
    THEN Some([k \in 1..Len(FrameObjectLists(FileA)) |->
                  [objects |-> FrameObjectLists(FileA)[k]]])
    ELSE None

\* C15: a tag event carrying a location makes it the current location,
\* sets new_loop, loads the sidecar records of that location and sets
\* frame_num to 0; it emits nothing and leaves stream_in_progress,
\* last_location, last_frame_params, frame_params and the logical-source
\* list as they were.  A tag event without a location changes nothing.
C15_TagEvent ==
    [][ /\ \A t \in TagInputs \ {None} :
              SinkEventTag(t)
              => /\ location' = t
                 /\ new_loop'
                 /\ json_metadata' = SidecarOf(Get(t))
                 /\ frame_num' = 0
                 /\ out' = out
                 /\ UNCHANGED <<stream_in_progress, last_location,
                                last_frame_params, frame_params,
                                source_ids_and_topics>>
        /\ SinkEventTag(None) => UNCHANGED vars ]_vars

\* A tag event named /data/A.mp4 while a stream that began at another
\* location was in progress: the sidecar of A is loaded and nothing of it
\* is used yet.
C15_Witness ==
    /\ read_metadata /\ new_loop /\ stream_in_progress
    /\ location = Some(PathOf("/data", "A", ".mp4"))
    /\ last_location = Some(PathOf("/data", "B", ".mp4"))
    /\ json_metadata = SidecarOf(Get(location)) /\ ~IsNone(json_metadata)
    /\ frame_num = 0
    /\ out # <<>> /\ IsFrame(out[Len(out)])


\* ---------------------------------------------------------------- C16
\* A buffer is rejected when its frame type is unsupported or when
\* build_video_frame fails.
RejectedBuffer ==
    BufferStep /\ ret'.result \in {"ERROR", "raised IndexError"}

\* C16: a rejected buffer emits no frame message for any logical source,
\* is reported with the error flow result, does not set stream_in_progress
\* and does not advance frame_num.
C16_RejectedBuffer ==
    [][ RejectedBuffer
        => /\ \A k \in 1..Len(Added) : ~IsFrame(Added[k])
           /\ fanout' = <<>>
           /\ ret'.result = "ERROR"
           /\ stream_in_progress' => stream_in_progress
           /\ frame_num' <= frame_num ]_vars

\* ---------------------------------------------------------------- C17
\* C17: with frame-type "embedded", no state between operations has the
\* input buffer still mapped.
C17_MapReleased == IsNone(frame_type) => ~mapped


\* ---------------------------------------------------------------- C18
\* The input formats the element has a codec for.
SupportedCapsNames == {"video/x-h264", "image/jpeg"}
\* frame_params and the initial-size transformation are both unset, or
\* both set with the same width and height.
CapsConsistent ==
    \/ IsNone(frame_params) /\ IsNone(initial_size_transformation)
    \/ /\ ~IsNone(frame_params) /\ ~IsNone(initial_size_transformation)
       /\ Get(initial_size_transformation).width = Get(frame_params).width
       /\ Get(initial_size_transformation).height = Get(frame_params).height

\* C18: a negotiation with an unsupported format returns false, emits
\* nothing and leaves frame_params and the initial-size transformation as
\* they were; one with a supported format replaces frame_params by the
\* codec, width, height and framerate of the new caps (the default
\* framerate when the caps have none) and sets the initial-size
\* transformation to that width and height; the two agree after every
\* step and initially.
C18_CapsNegotiation ==
    /\ CapsConsistent
    /\ [][ /\ \A c \in CapsInputs :
                 DoSetCaps(c)
                 => IF c.name \notin SupportedCapsNames
                    THEN /\ ret' = [op |-> "set_caps", result |-> "False"]
                         /\ out' = out
                         /\ UNCHANGED <<frame_params,
                                        initial_size_transformation>>
                    ELSE /\ ret' = [op |-> "set_caps", result |-> "True"]
                         /\ out' = out
                         /\ ~IsNone(frame_params')
                         /\ Get(frame_params').width = c.width
                         /\ Get(frame_params').height = c.height
                         /\ Get(frame_params').codec_name =
                               (IF c.name = "image/jpeg" THEN "jpeg"
                                                         ELSE "h264")
                         /\ Get(frame_params').framerate =
                               (IF IsNone(c.framerate) THEN DEFAULT_FRAMERATE
                                                       ELSE "25/1")
                         /\ initial_size_transformation' =
                               Some([kind |-> "initial_size",
                                     width |-> c.width, height |-> c.height])
           /\ CapsConsistent' ]_vars

\* A renegotiation to 1280x720 took place while a stream was in progress,
\* and a later negotiation with an unsupported format was rejected and
\* left it in force.
C18_Witness ==
    /\ ret = [op |-> "set_caps", result |-> "False"]
    /\ stream_in_progress
    /\ ~IsNone(frame_params) /\ ~IsNone(last_frame_params)
    /\ Get(frame_params).width = 1280 /\ Get(last_frame_params).width = 640
    /\ Get(initial_size_transformation).width = 1280
    /\ Get(initial_size_transformation).height = 720


\* ---------------------------------------------------------------- C19
\* The segments of an envelope: topic, payload and, when memory was
\* appended, that memory.
NumSegments(env) == IF IsNone(env.memory) THEN 2 ELSE 3

\* C19: every emitted envelope carries the topic of the logical source
\* its payload is for; end-of-stream and shutdown envelopes have two
\* segments, a frame envelope two with frame-type "embedded" and three, the
\* third being the input buffer's memory, with by-reference content; a
\* shutdown envelope carries the topic of the first logical source.
C19_EnvelopeSegments ==
    \A k \in 1..Len(out) :
        LET env == out[k] IN
        /\ (IsEos(env) \/ IsFrame(env))
              => \E i \in 1..NumSources :
                    /\ env.payload.source_id = Some(SourceId(i))
                    /\ env.topic = Topic(i)
        /\ IsEos(env) => NumSegments(env) = 2
        /\ IsShutdown(env) => NumSegments(env) = 2 /\ env.topic = Topic(1)
        /\ IsFrame(env)
              => IF IsNone(frame_type)
                 THEN NumSegments(env) = 2
                 ELSE /\ NumSegments(env) = 3
                      /\ env.memory = Some(InBuf(Get(env.payload.buf)).memory)

\* By-reference frames, an end-of-stream and a shutdown envelope were
\* emitted.
C19_Witness ==
    /\ ~IsNone(frame_type) /\ Len(out) >= 3
    /\ IsFrame(out[1]) /\ NumSegments(out[1]) = 3
    /\ IsEos(out[Len(out) - 1]) /\ IsShutdown(out[Len(out)])
    /\ out[Len(out)].topic = [bytes |-> "cam/"]


\* ---------------------------------------------------------------- C20
\* The number of sidecar records loaded (none when nothing is loaded).
NumLoaded == IF IsNone(json_metadata) THEN 0 ELSE Len(Get(json_metadata))
\* frame_num is at most the number of buffers fanned out since the last
\* (re)load and at most the number of loaded records.
FrameIndexBounded ==
    /\ 0 <= frame_num
    /\ frame_num <= since_load
    /\ frame_num <= NumLoaded

\* C20: whatever the number of logical sources, processing one buffer
\* advances frame_num by at most one, all frame messages of the buffer
\* carry the same objects, and frame_num stays within the number of
\* buffers processed since the last (re)load and the number of loaded
\* records.
C20_FrameIndexAdvance ==
    /\ FrameIndexBounded
    /\ [][ /\ BufferStep
                => /\ frame_num' <= frame_num + 1
                   /\ \A i, j \in 1..Len(fanout') :
                         fanout'[i].objects = fanout'[j].objects
           /\ FrameIndexBounded' ]_vars

\* Two buffers were fanned out to several sources with a sidecar in use:
\* frame_num is 2, and the frames of the second buffer carry the same,
\* non-empty, objects.
C20_Witness ==
    /\ read_metadata /\ NumSources >= 2 /\ Len(fanout) = NumSources
    /\ frame_num = 2 /\ since_load = 2 /\ NumLoaded = 2
    /\ fanout[1].objects = fanout[NumSources].objects
    /\ fanout[1].objects # <<>>
    /\ fanout[1].source_id # fanout[NumSources].source_id


\* ---------------------------------------------------------------- C21
\* C21: a buffer processed while stream_in_progress is false emits no
\* end-of-stream message, leaves the loaded sidecar records as they are
\* and does not reset frame_num, whatever the triggers and whatever
\* changed; so a buffer emits end-of-stream only when a frame message
\* follows the last end-of-stream message already in the log.
C21_NoEosWithoutStream ==
    [][ /\ (BufferStep /\ ~stream_in_progress)
           => /\ NoEosAdded
              /\ json_metadata' = json_metadata
              /\ frame_num' >= frame_num
        /\ BoundaryFired
           => \E k \in (LastEos + 1)..Len(out) : IsFrame(out[k]) ]_vars

\* With every trigger set, the third event of the run was a buffer
\* processed after the stream had been closed (the log holds one
\* end-of-stream between the frames of buffers 1 and 3) at a location
\* given by a tag event: it emitted its frame and no end-of-stream.
C21_Witness ==
    /\ eos_on_file_end /\ eos_on_loop_end /\ eos_on_frame_params_change
    /\ NumSources = 1 /\ HasPathAttrs(location)
    /\ Len(out) = 3
    /\ out[1].payload = FrameDigest(SourceId(1), 1)
    /\ IsEos(out[2])
    /\ out[3].payload = FrameDigest(SourceId(1), 3)

====
